---- MODULE Spec2Model ----
(***************************************************************************)
(* Record-linkage core of streamlit_app.py: the two loaders (city          *)
(* normalisation, country resolution), the fuzzy city matcher, the rewrite *)
(* of the measurement cities, the left merge with the gazetteer, the        *)
(* coordinate filter, and the first use of the joined table.               *)
(*                                                                         *)
(* A city string is a sequence of one-character strings, so that           *)
(* lower-casing, the character filter and the similarity score are         *)
(* computed character by character.  A country, a latitude and a longitude *)
(* are opaque strings: the code only compares them.  NaN is pandas' null.  *)
(***************************************************************************)
EXTENDS Integers, Sequences, FiniteSets, TLC

VARIABLES
    pc,              \* position in the module-level script
    csv_air,         \* rows of global_air_pollution_data.csv (renamed columns)
    csv_geo,         \* rows of geonames_cleaned.csv (renamed columns)
    df_air_quality,  \* module variable df_air_quality
    df_coordinates,  \* module variable df_coordinates
    city_mapping,    \* module variable city_mapping (a dict)
    todo,            \* cities the matcher loop still has to visit, in order
    df_final,        \* module variable df_final
    bound,           \* names of the module-level variables bound so far
    nin,             \* Normalizer: the raw string
    nout             \* Normalizer: results of successive applications

vars == <<pc, csv_air, csv_geo, df_air_quality, df_coordinates, city_mapping,
          todo, df_final, bound, nin, nout>>

pipeVars == <<pc, csv_air, csv_geo, df_air_quality, df_coordinates,
              city_mapping, todo, df_final, bound>>

normVars == <<nin, nout>>

-----------------------------------------------------------------------------
(* Bounds of the model *)

MaxAir == 2
MaxGeo == 2
MaxLen == 3

-----------------------------------------------------------------------------
(* Characters and strings *)

UpperCase == <<"A","B","C","D","E","F","G","H","I","J","K","L","M",
               "N","O","P","Q","R","S","T","U","V","W","X","Y","Z">>

LowerCase == <<"a","b","c","d","e","f","g","h","i","j","k","l","m",
               "n","o","p","q","r","s","t","u","v","w","x","y","z">>

Digits == <<"0","1","2","3","4","5","6","7","8","9">>

Range(s) == {s[i] : i \in DOMAIN s}

\* str.lower() on one character
lower_char(c) ==
    IF \E i \in DOMAIN UpperCase : UpperCase[i] = c
    THEN LowerCase[CHOOSE i \in DOMAIN UpperCase : UpperCase[i] = c]
    ELSE c

\* .str.lower()
str_lower(s) == [i \in DOMAIN s |-> lower_char(s[i])]

\* the characters the pattern [^a-z0-9] does not match
Kept(c) == c \in Range(LowerCase) \cup Range(Digits)

\* .str.replace("[^a-z0-9]", "", regex=True): every match is deleted
str_replace(s) == SelectSeq(s, Kept)

\* .str.replace with n=1: only the first match is deleted
RECURSIVE str_replace_first(_)
str_replace_first(s) ==
    IF s = <<>> THEN <<>>
    ELSE IF Kept(Head(s)) THEN <<Head(s)>> \o str_replace_first(Tail(s))
    ELSE Tail(s)

normalize_first_only(s) == str_replace_first(str_lower(s))

\* df["City"].str.lower().str.replace("[^a-z0-9]", "", regex=True)
normalize(s) == str_replace(str_lower(s))

-----------------------------------------------------------------------------
(* Country resolution *)

\* pycountry.countries: the records of the ISO 3166-1 database (two of them),
\* each with the spellings lookup() accepts for it
countries ==
    << [alpha_2 |-> "US", spellings |-> {"US", "USA", "United States"}],
       [alpha_2 |-> "FR", spellings |-> {"FR", "FRA", "France"}] >>

\* x == c for a str x and a database record c: str.__eq__ does not know the
\* record type and the record class defines no __eq__, so the comparison
\* falls back to identity
str_eq_record(x, c) == FALSE

\* x in pycountry.countries: the database defines __iter__ and no
\* __contains__, so the test iterates the records and compares x with each
in_countries(x) == \E i \in DOMAIN countries : str_eq_record(x, countries[i])

\* pycountry.countries.lookup(x).alpha_2 (LookupError when nothing matches)
lookup_alpha_2(x) ==
    LET hit == {i \in DOMAIN countries : x \in countries[i].spellings}
    IN  IF hit = {} THEN "LookupError" ELSE countries[CHOOSE i \in hit : TRUE].alpha_2

\* lambda x: pycountry.countries.lookup(x).alpha_2 if x in pycountry.countries else x
resolve_country(x) == IF in_countries(x) THEN lookup_alpha_2(x) ELSE x

-----------------------------------------------------------------------------
(* Similarity score: rapidfuzz.fuzz.ratio *)

Threshold == 85

SetMax(S) == CHOOSE m \in S : \A n \in S : m >= n

\* One row of the longest-common-subsequence table, from the row `prev` of
\* the previous character of s1 (position k of a row is column k-1): the
\* character c is left out, or is paired with an equal character of s2 at
\* some position m <= j.  The row is copied into a tuple (SubSeq) so that
\* each entry is computed once.
lcs_row(prev, c, s2) ==
    LET row == [k \in 1..(Len(s2) + 1) |->
                   SetMax({prev[k]} \cup
                          {prev[m] + 1 : m \in {m \in 1..(k - 1) : s2[m] = c}})]
    IN  SubSeq(row, 1, Len(s2) + 1)

RECURSIVE lcs_rows(_, _, _)
lcs_rows(s1, s2, prev) ==
    IF s1 = <<>> THEN prev
    ELSE lcs_rows(Tail(s1), s2, lcs_row(prev, Head(s1), s2))

\* length of the longest common subsequence of s1 and s2
lcs_length(s1, s2) ==
    lcs_rows(s1, s2, SubSeq([k \in 1..(Len(s2) + 1) |-> 0], 1, Len(s2) + 1))[Len(s2) + 1]

\* Indel distance: insertions and deletions turning s1 into s2
indel_distance(s1, s2) == Len(s1) + Len(s2) - 2 * lcs_length(s1, s2)

\* A score is the exact fraction num/den (den > 0) of the value the library
\* returns as a float.
score_gt(a, b) == a.num * b.den > b.num * a.den
score_ge(a, b) == a.num * b.den >= b.num * a.den
score_of(n) == [num |-> n, den |-> 1]

\* fuzz.ratio(s1, s2) = 100 * (1 - indel_distance / (len(s1) + len(s2))),
\* and 100 for two empty strings
ratio(s1, s2) ==
    LET maximum == Len(s1) + Len(s2)
    IN  IF maximum = 0 THEN score_of(100)
        ELSE [num |-> 100 * (maximum - indel_distance(s1, s2)), den |-> maximum]

\* The scan of process.extractOne over the choices from position k on: a
\* choice replaces the best so far only with a strictly greater score.
\* best is <<>> (nothing yet) or <<[choice, score]>>.
RECURSIVE extract_scan(_, _, _, _)
extract_scan(query, choices, k, best) ==
    IF k > Len(choices) THEN best
    ELSE LET score == ratio(query, choices[k])
         IN  extract_scan(query, choices, k + 1,
                 IF best = <<>> \/ score_gt(score, best[1].score)
                 THEN <<[choice |-> choices[k], score |-> score]>>
                 ELSE best)

\* the scan with >= in place of >: the last of equally scoring choices wins
RECURSIVE extract_scan_last(_, _, _, _)
extract_scan_last(query, choices, k, best) ==
    IF k > Len(choices) THEN best
    ELSE LET score == ratio(query, choices[k])
         IN  extract_scan_last(query, choices, k + 1,
                 IF best = <<>> \/ score_ge(score, best[1].score)
                 THEN <<[choice |-> choices[k], score |-> score]>>
                 ELSE best)

extractOne_last(query, choices) == extract_scan_last(query, choices, 1, <<>>)

\* process.extractOne(query, choices, scorer=fuzz.ratio): <<>> is None
extractOne(query, choices) == extract_scan(query, choices, 1, <<>>)

-----------------------------------------------------------------------------
(* pandas *)

NaN == "NaN"

\* Series.unique(): the distinct values in order of first appearance
RECURSIVE unique(_)
unique(s) ==
    IF s = <<>> THEN <<>>
    ELSE LET init == unique(SubSeq(s, 1, Len(s) - 1))
             last == s[Len(s)]
         IN  IF last \in Range(init) THEN init ELSE Append(init, last)

column(df, name) == [i \in DOMAIN df |-> df[i][name]]

\* Series.replace(dict): a value that is a key becomes the dict's value for
\* it, every other value is kept; one pass over the original values
replace(series, mapping) ==
    [i \in DOMAIN series |->
        IF series[i] \in DOMAIN mapping THEN mapping[series[i]] ELSE series[i]]

\* the merge on City alone (on=["City"])
merge_row_on_city(left, i, right) ==
    LET row == left[i]
        joined(g) == [Country |-> row.Country, City |-> row.City,
                      AQI |-> row.AQI, PM25 |-> row.PM25, NO2 |-> row.NO2,
                      Ozone |-> row.Ozone, lat |-> g.lat, lon |-> g.lon,
                      src |-> i]
        sameKey(g) == g.City = row.City
        hits == SelectSeq(right, sameKey)
    IN  IF hits = <<>> THEN <<joined([lat |-> NaN, lon |-> NaN])>>
        ELSE [k \in DOMAIN hits |-> joined(hits[k])]

\* the rows of the left merge for one left row (position i): one per right
\* row with equal City and equal Country, in the right table's order, or a
\* single row with null coordinates
merge_row(left, i, right) ==
    LET row == left[i]
        joined(g) == [Country |-> row.Country, City |-> row.City,
                      AQI |-> row.AQI, PM25 |-> row.PM25, NO2 |-> row.NO2,
                      Ozone |-> row.Ozone, lat |-> g.lat, lon |-> g.lon,
                      src |-> i]
        sameKey(g) == g.City = row.City /\ g.Country = row.Country
        hits == SelectSeq(right, sameKey)
    IN  IF hits = <<>> THEN <<joined([lat |-> NaN, lon |-> NaN])>>
        ELSE [k \in DOMAIN hits |-> joined(hits[k])]

RECURSIVE merge_from(_, _, _)
merge_from(left, i, right) ==
    IF i > Len(left) THEN <<>>
    ELSE merge_row(left, i, right) \o merge_from(left, i + 1, right)

\* left.merge(right, on=["City", "Country"], how="left"); src is the
\* position of the left row an output row comes from (not a column)
merge(left, right) == merge_from(left, 1, right)

\* the filter of dropna(..., how='all'): a row goes only when both are null
has_a_coordinate(r) == r.lat # NaN \/ r.lon # NaN

has_coordinates(r) == r.lat # NaN /\ r.lon # NaN

\* df.dropna(subset=['lat', 'lon'])
dropna(df) == SelectSeq(df, has_coordinates)

-----------------------------------------------------------------------------
(* Input tables *)

Paris == <<"P","a","r","i","s">>
Parris == <<"P","a","r","r","i","s">>
Parri == <<"P","a","r","r","i">>
Pau == <<"P","a","u">>
SantiagoCaballero ==
    <<"S","a","n","t","i","a","g","o"," ","C","a","b","a","l","l","e","r","o">>
SantiagoDeLosCaballeros ==
    <<"S","a","n","t","i","a","g","o"," ","d","e"," ","l","o","s"," ","C","a","b","a","l","l","e","r","o","s">>

Readings == {[AQI |-> 50, PM25 |-> 20, NO2 |-> 10, Ozone |-> 5],
             [AQI |-> 120, PM25 |-> 80, NO2 |-> 40, Ozone |-> 30]}

Located == {[lat |-> "48.85", lon |-> "2.35"]}

Coordinates == Located \cup {[lat |-> NaN, lon |-> "2.35"],
                             [lat |-> "19.45", lon |-> NaN]}

\* rows of the measurement file after the column renaming and selection
AirRows(cities, countryNames, readings) ==
    {[Country |-> c, City |-> s, AQI |-> v.AQI, PM25 |-> v.PM25,
      NO2 |-> v.NO2, Ozone |-> v.Ozone] :
        c \in countryNames, s \in cities, v \in readings}

\* rows of the gazetteer file after the column renaming and selection
GeoRows(cities, codes, coordinates) ==
    {[City |-> s, Country |-> c, lat |-> x.lat, lon |-> x.lon] :
        s \in cities, c \in codes, x \in coordinates}

Tables(rows, n) == UNION {[1..k -> rows] : k \in 0..n}

\* strings of at most n characters over a small alphabet
Alphabet == {"A", "b", "7", "-", " "}
Strings(n) == UNION {[1..k -> Alphabet] : k \in 0..n}

-----------------------------------------------------------------------------
(* The module-level script *)

\* the state before the first statement, for the two files' contents
InitScript(airRows, geoRows) ==
    /\ pc = "load_air"
    /\ csv_air \in Tables(airRows, MaxAir)
    /\ csv_geo \in Tables(geoRows, MaxGeo)
    /\ df_air_quality = <<>>
    /\ df_coordinates = <<>>
    /\ city_mapping = <<>>
    /\ todo = <<>>
    /\ df_final = <<>>
    /\ bound = {}
    /\ nin = <<>>
    /\ nout = <<>>

\* files that exercise the join: a misspelt and an unknown city, gazetteer
\* rows in two countries, with and without coordinates
Init ==
    InitScript(AirRows({Parris, Pau}, {"FR"}, Readings),
               GeoRows({Paris}, {"FR", "US"}, Coordinates))

\* files that exercise the matcher: exact, close, borderline and tied names
InitMatch ==
    InitScript(AirRows({Paris, Parris, SantiagoCaballero},
                       {"FR"}, {[AQI |-> 50, PM25 |-> 20, NO2 |-> 10, Ozone |-> 5]}),
               GeoRows({Paris, Parri, SantiagoDeLosCaballeros}, {"FR"}, Located))

\* files that exercise the country column of the measurement file
InitLoad ==
    InitScript(AirRows({Paris, Pau},
                       {"United States", "US", "France", "FR", "Unknownland"},
                       {[AQI |-> 50, PM25 |-> 20, NO2 |-> 10, Ozone |-> 5]}),
               GeoRows({Paris}, {"FR"}, Located))

\* a raw city name, before the Normalizer sees it
InitNormalize ==
    /\ pc = "normalize"
    /\ nin \in Strings(MaxLen)
    /\ nout = <<>>
    /\ csv_air = <<>>
    /\ csv_geo = <<>>
    /\ df_air_quality = <<>>
    /\ df_coordinates = <<>>
    /\ city_mapping = <<>>
    /\ todo = <<>>
    /\ df_final = <<>>
    /\ bound = {}

\* the Normalizer applied to the raw name, then to its own result
apply_normalize ==
    /\ pc = "normalize"
    /\ Len(nout) < 2
    /\ nout' = Append(nout, normalize(IF nout = <<>> THEN nin ELSE nout[Len(nout)]))
    /\ UNCHANGED <<nin, pipeVars>>

\* df_air_quality = load_air_quality_data()
load_air_quality_data ==
    /\ pc = "load_air"
    /\ df_air_quality' =
           [i \in DOMAIN csv_air |->
               [csv_air[i] EXCEPT !.City = normalize(@),
                                  !.Country = resolve_country(@)]]
    /\ bound' = bound \cup {"df_air_quality"}
    /\ pc' = "load_geo"
    /\ UNCHANGED <<csv_air, csv_geo, df_coordinates, city_mapping, todo,
                   df_final, normVars>>

\* df_coordinates = load_city_coordinates()
load_city_coordinates ==
    /\ pc = "load_geo"
    /\ df_coordinates' =
           [i \in DOMAIN csv_geo |-> [csv_geo[i] EXCEPT !.City = normalize(@)]]
    /\ bound' = bound \cup {"df_coordinates"}
    /\ pc' = "if"
    /\ UNCHANGED <<csv_air, csv_geo, df_air_quality, city_mapping, todo,
                   df_final, normVars>>

\* if not df_coordinates.empty: city_mapping = {} and the loop's iterator;
\* otherwise the script continues after the block
if_not_empty ==
    /\ pc = "if"
    /\ IF df_coordinates # <<>>
       THEN /\ city_mapping' = <<>>
            /\ todo' = unique(column(df_air_quality, "City"))
            /\ bound' = bound \cup {"city_mapping"}
            /\ pc' = "for"
       ELSE /\ pc' = "render"
            /\ UNCHANGED <<city_mapping, todo, bound>>
    /\ UNCHANGED <<csv_air, csv_geo, df_air_quality, df_coordinates,
                   df_final, normVars>>

\* the loop body with `score >= 85` as its test
loop_body_ge(mapping, city, choices) ==
    LET best == extractOne(city, choices)
    IN  IF score_ge(best[1].score, score_of(Threshold))
        THEN (city :> best[1].choice) @@ mapping
        ELSE mapping

\* the loop body with the threshold on the scale 0..1 (`score > 0.85`)
loop_body_unit_scale(mapping, city, choices) ==
    LET best == extractOne(city, choices)
    IN  IF score_gt(best[1].score, [num |-> Threshold, den |-> 100])
        THEN (city :> best[1].choice) @@ mapping
        ELSE mapping

\* the loop body with key and value exchanged (`city_mapping[match] = city`)
loop_body_swapped(mapping, city, choices) ==
    LET best == extractOne(city, choices)
    IN  IF score_gt(best[1].score, score_of(Threshold))
        THEN (best[1].choice :> city) @@ mapping
        ELSE mapping

\* the dict after one iteration of the loop for `city`
loop_body(mapping, city, choices) ==
    LET best == extractOne(city, choices)
    IN  IF score_gt(best[1].score, score_of(Threshold))
        THEN (city :> best[1].choice) @@ mapping
        ELSE mapping

\* one iteration of: for city in df_air_quality["City"].unique()
for_city ==
    /\ pc = "for"
    /\ todo # <<>>
    /\ city_mapping' =
           loop_body(city_mapping, Head(todo),
                     unique(column(df_coordinates, "City")))
    /\ todo' = Tail(todo)
    /\ UNCHANGED <<pc, csv_air, csv_geo, df_air_quality, df_coordinates,
                   df_final, bound, normVars>>

\* the table with its City column rewritten
replace_city(df, mapping) ==
    LET rewritten == replace(column(df, "City"), mapping)
    IN  [i \in DOMAIN df |-> [df[i] EXCEPT !.City = rewritten[i]]]

\* df_air_quality["City"] = df_air_quality["City"].replace(city_mapping)
replace_cities ==
    /\ pc = "for"
    /\ todo = <<>>
    /\ df_air_quality' = replace_city(df_air_quality, city_mapping)
    /\ pc' = "merge"
    /\ UNCHANGED <<csv_air, csv_geo, df_coordinates, city_mapping, todo,
                   df_final, bound, normVars>>

\* df_final = df_air_quality.merge(df_coordinates, ...)
merge_tables ==
    /\ pc = "merge"
    /\ df_final' = merge(df_air_quality, df_coordinates)
    /\ bound' = bound \cup {"df_final"}
    /\ pc' = "dropna"
    /\ UNCHANGED <<csv_air, csv_geo, df_air_quality, df_coordinates,
                   city_mapping, todo, normVars>>

\* df_final = df_final.dropna(subset=['lat', 'lon'])
drop_missing ==
    /\ pc = "dropna"
    /\ df_final' = dropna(df_final)
    /\ pc' = "render"
    /\ UNCHANGED <<csv_air, csv_geo, df_air_quality, df_coordinates,
                   city_mapping, todo, bound, normVars>>

\* px.scatter_mapbox(df_final, ...): the first read of df_final; reading a
\* name that was never bound raises NameError and ends the script
scatter_mapbox ==
    /\ pc = "render"
    /\ pc' = IF "df_final" \in bound THEN "done" ELSE "NameError"
    /\ UNCHANGED <<csv_air, csv_geo, df_air_quality, df_coordinates,
                   city_mapping, todo, df_final, bound, normVars>>

Next ==
    \/ load_air_quality_data
    \/ load_city_coordinates
    \/ if_not_empty
    \/ for_city
    \/ replace_cities
    \/ merge_tables
    \/ drop_missing
    \/ scatter_mapbox

Spec == Init /\ [][Next]_vars

SpecMatch == InitMatch /\ [][Next]_vars

SpecLoad == InitLoad /\ [][Next]_vars

SpecNormalize == InitNormalize /\ [][apply_normalize]_vars

-----------------------------------------------------------------------------
(* Vocabulary of the properties *)

\* the normalized city of measurement row i
S(i) == normalize(csv_air[i].City)

\* the distinct normalized gazetteer cities
G == {normalize(csv_geo[i].City) : i \in DOMAIN csv_geo}

\* position of the first gazetteer row with the normalized city g
FirstSeen(g) ==
    CHOOSE i \in DOMAIN csv_geo :
        /\ normalize(csv_geo[i].City) = g
        /\ \A j \in 1..(i - 1) : normalize(csv_geo[j].City) # g

\* the cities the matcher loop has been through
Visited == {S(i) : i \in DOMAIN csv_air} \ Range(todo)

MatcherStarted == "city_mapping" \in bound

\* the rewrite of the City column has run
Rewritten == "city_mapping" \in bound /\ pc \in {"merge", "dropna", "render", "done"}

\* the merge has run, the coordinate filter has not
Merged == pc = "dropna"

\* the joined table as the presentation layer receives it
Final == "df_final" \in bound /\ pc \in {"render", "done"}

AboveThreshold(s, g) == score_gt(ratio(s, g), score_of(85))

\* some gazetteer city scores above the threshold for s
HasCandidate(s) == \E g \in G : AboveThreshold(s, g)

SameScore(a, b) == score_ge(a, b) /\ score_ge(b, a)

OutputOf(i) == {k \in DOMAIN df_final : df_final[k].src = i}

-----------------------------------------------------------------------------
(* Properties *)

\* C1: with an empty gazetteer the script does not fail: no city is mapped
\* and an empty joined table is bound when the presentation layer reads it.
C1_EmptyGazetteerYieldsTable ==
    (csv_geo = <<>> /\ pc \in {"done", "NameError"}) =>
        /\ pc = "done"
        /\ "df_final" \in bound
        /\ df_final = <<>>
        /\ DOMAIN city_mapping = {}

\* C2: every measurement row contributes at most one row to the joined
\* table, also when several gazetteer rows carry its key.
C2_AtMostOneRowPerMeasurement ==
    Final => \A i \in DOMAIN csv_air : Cardinality(OutputOf(i)) <= 1

\* C3: a visited city s is a key of city_mapping exactly when some candidate
\* scores strictly above 85 (so not at exactly 85); the value recorded for s
\* is a gazetteer city with the maximum score.
C3_MappedIffAboveThreshold ==
    MatcherStarted =>
        /\ DOMAIN city_mapping \subseteq Visited
        /\ \A s \in Visited : s \in DOMAIN city_mapping <=> HasCandidate(s)
        /\ \A s \in DOMAIN city_mapping :
              /\ city_mapping[s] \in G
              /\ \A g \in G : score_ge(ratio(s, city_mapping[s]), ratio(s, g))

\* a city whose best score is exactly 85 was visited and left unmapped,
\* and another city was mapped to a different name
C3_Witness ==
    /\ MatcherStarted
    /\ \E s \in Visited :
          /\ s \notin DOMAIN city_mapping
          /\ \E g \in G : SameScore(ratio(s, g), score_of(85))
    /\ \E s \in DOMAIN city_mapping : city_mapping[s] # s

\* C4: every row of the joined table has a latitude and a longitude; a
\* measurement row with no gazetteer row of its key that has both is absent.
C4_CoordinatesNonNull ==
    Final =>
        /\ \A k \in DOMAIN df_final :
              df_final[k].lat # NaN /\ df_final[k].lon # NaN
        /\ \A i \in DOMAIN csv_air :
              (~ \E j \in DOMAIN df_coordinates :
                    /\ df_coordinates[j].City = df_air_quality[i].City
                    /\ df_coordinates[j].Country = df_air_quality[i].Country
                    /\ df_coordinates[j].lat # NaN
                    /\ df_coordinates[j].lon # NaN)
              => OutputOf(i) = {}

\* a gazetteer row without a latitude matched a measurement row by city and
\* country and is not in the table, which has another row
C4_Witness ==
    /\ Final
    /\ df_final # <<>>
    /\ \E i \in DOMAIN csv_air, j \in DOMAIN df_coordinates :
          /\ df_coordinates[j].City = df_air_quality[i].City
          /\ df_coordinates[j].Country = df_air_quality[i].Country
          /\ df_coordinates[j].lat = NaN

\* the city of measurement row i after the rewrite through city_mapping
RewrittenCity(i) ==
    IF S(i) \in DOMAIN city_mapping THEN city_mapping[S(i)] ELSE S(i)

\* C5: a row of the joined table comes from a measurement row and a
\* gazetteer row with exactly the measurement row's rewritten city and
\* resolved country; it has that gazetteer row's coordinates and the
\* measurement row's readings.
C5_ExactKeyJoin ==
    Final =>
        \A k \in DOMAIN df_final :
            LET r == df_final[k]
            IN  /\ r.src \in DOMAIN csv_air
                /\ r.City = RewrittenCity(r.src)
                /\ r.Country = resolve_country(csv_air[r.src].Country)
                /\ r.AQI = csv_air[r.src].AQI
                /\ r.PM25 = csv_air[r.src].PM25
                /\ r.NO2 = csv_air[r.src].NO2
                /\ r.Ozone = csv_air[r.src].Ozone
                /\ \E j \in DOMAIN csv_geo :
                      /\ normalize(csv_geo[j].City) = r.City
                      /\ csv_geo[j].Country = r.Country
                      /\ csv_geo[j].lat = r.lat
                      /\ csv_geo[j].lon = r.lon

\* "Parris" in FR was rewritten to "paris" and carries the coordinates of the
\* gazetteer's ("Paris", FR), while the gazetteer also has a Paris elsewhere
C5_Witness ==
    /\ Final
    /\ \E k \in DOMAIN df_final :
          /\ csv_air[df_final[k].src].City = Parris
          /\ df_final[k].City = normalize(Paris)
          /\ df_final[k].Country = "FR"
          /\ df_final[k].lat = "48.85"
          /\ df_final[k].AQI = 120
    /\ \E j \in DOMAIN csv_geo : csv_geo[j].Country = "US"

\* C6: normalize returns a string for every input, the empty one included,
\* and applying it to its own result changes nothing.
C6_NormalizeIdempotent ==
    /\ Len(nout) >= 1 =>
          /\ Len(nout[1]) <= Len(nin)
          /\ Range(nout[1]) \subseteq Range(str_lower(nin))
    /\ Len(nout) = 2 => nout[2] = nout[1]

\* a name with an upper-case letter and a deleted character went through
\* both applications
C6_Witness ==
    /\ Len(nout) = 2
    /\ nout[1] # <<>>
    /\ Len(nout[1]) < Len(nin)
    /\ \E k \in DOMAIN nin : nin[k] = "A"

\* the country lookup() would find for a raw value, or the value itself
Recognized(x) == \E i \in DOMAIN countries : x \in countries[i].spellings

\* C7: after the load, a recognized country name or identifier has become
\* its 2-letter code and every other value is unchanged.
C7_CountryResolved ==
    "df_air_quality" \in bound =>
        \A i \in DOMAIN csv_air :
            df_air_quality[i].Country =
                IF Recognized(csv_air[i].Country)
                THEN lookup_alpha_2(csv_air[i].Country)
                ELSE csv_air[i].Country

\* C8: a measurement row whose city has no candidate above the threshold
\* keeps its place and its city through the matcher and the rewrite, is
\* still in the merged table, and is not in the joined table.
C8_UnmatchedLeavesAtJoin ==
    "df_coordinates" \in bound =>
        \A i \in DOMAIN csv_air :
            ~ HasCandidate(S(i)) =>
                /\ Len(df_air_quality) = Len(csv_air)
                /\ df_air_quality[i].City = S(i)
                /\ Merged => OutputOf(i) # {}
                /\ Final => OutputOf(i) = {}

\* the script finished with a non-empty gazetteer and a non-empty joined
\* table, and a measurement row without a candidate went through it
C8_Witness ==
    /\ pc = "done"
    /\ df_final # <<>>
    /\ \E i \in DOMAIN csv_air : ~ HasCandidate(S(i))

\* C9: the value recorded for s has the maximum score, and every gazetteer
\* city first seen before it scores strictly less; this depends on s and the
\* gazetteer only.
C9_FirstBestCandidate ==
    MatcherStarted =>
        \A s \in DOMAIN city_mapping :
            /\ city_mapping[s] \in G
            /\ \A g \in G :
                  /\ score_ge(ratio(s, city_mapping[s]), ratio(s, g))
                  /\ FirstSeen(g) < FirstSeen(city_mapping[s])
                        => score_gt(ratio(s, city_mapping[s]), ratio(s, g))

\* a city was mapped while a later gazetteer city has the same score
C9_Witness ==
    /\ MatcherStarted
    /\ \E s \in DOMAIN city_mapping :
          \E g \in G :
              /\ g # city_mapping[s]
              /\ SameScore(ratio(s, g), ratio(s, city_mapping[s]))
              /\ FirstSeen(g) > FirstSeen(city_mapping[s])

\* C10: a visited city that is a gazetteer city scores 100 and is mapped to
\* itself; no value of city_mapping is a key mapped elsewhere; the rewrite
\* leaves the city of such rows as it was.
C10_ExactMatchKept ==
    MatcherStarted =>
        /\ \A s \in Visited \cap G :
              /\ s \in DOMAIN city_mapping
              /\ city_mapping[s] = s
              /\ SameScore(ratio(s, city_mapping[s]), score_of(100))
        /\ \A s \in DOMAIN city_mapping :
              city_mapping[s] \in DOMAIN city_mapping
                  => city_mapping[city_mapping[s]] = city_mapping[s]
        /\ Rewritten =>
              \A i \in DOMAIN csv_air :
                  S(i) \in G => df_air_quality[i].City = S(i)

\* after the rewrite, with a gazetteer city among the measurement cities
\* and another measurement city mapped to it
C10_Witness ==
    /\ Rewritten
    /\ \E i, j \in DOMAIN csv_air :
          /\ S(i) \in G
          /\ S(j) # S(i)
          /\ S(j) \in DOMAIN city_mapping
          /\ city_mapping[S(j)] = S(i)

====
